---- MODULE Spec2Model ----
(***************************************************************************)
(* Model of pydoc_ext/module_search.py: the two module-name search engines *)
(* search_nested and search_fullname.                                      *)
(*                                                                         *)
(* A Python str is a sequence of one-character strings.  The alphabet is   *)
(* {"*", ".", "A", "B", "a", "b"}; names and queries never hold a newline  *)
(* (the only character the regex "." of ordered_char_list_regex refuses).  *)
(* One call of an engine is a run of the machine: Call*, one *Iter step    *)
(* per candidate name, then *Return (the sort and the return statement).   *)
(***************************************************************************)
EXTENDS Integers, Sequences, FiniteSets, TLC

VARIABLES
    query,            \* the query argument of the call
    module_names,     \* the module_names argument, in iteration order
    scorer,           \* which fuzzy scorer fuzzy_search.get_score is
    engine,           \* "none", "nested" (search_nested), "fullname" (search_fullname)
    pc,               \* "idle", "loop", "done"
    i,                \* index of the next name the for loop takes
    result_items,     \* the result_items list
    has_exact_match,  \* search_nested's has_exact_match
    names,            \* the returned list of names
    calls             \* the (pattern, text) pairs get_score was invoked with

vars == <<query, module_names, scorer, engine, pc, i, result_items,
          has_exact_match, names, calls>>

\* The longest candidate list drawn.
MaxNames == 2

-----------------------------------------------------------------------------
(* Python str operations                                                   *)

\* ord(c)
Ord(c) ==
    CASE c = "*" -> 42
      [] c = "." -> 46
      [] c = "A" -> 65
      [] c = "B" -> 66
      [] c = "a" -> 97
      [] c = "b" -> 98

LowerChar(c) ==
    CASE c = "A" -> "a"
      [] c = "B" -> "b"
      [] OTHER -> c

\* str.lower()
Lower(s) == [k \in 1..Len(s) |-> LowerChar(s[k])]

\* the index of the first occurrence of character c in s, 0 when there is none
FirstIndex(s, c) ==
    IF \E k \in 1..Len(s) : s[k] = c
    THEN CHOOSE k \in 1..Len(s) : s[k] = c /\ \A j \in 1..(k - 1) : s[j] # c
    ELSE 0

\* s[:k]
Take(s, k) == SubSeq(s, 1, IF k < Len(s) THEN k ELSE Len(s))

\* s[k:]
Drop(s, k) == SubSeq(s, k + 1, Len(s))

\* str.split(".")
RECURSIVE Split(_)
Split(s) ==
    LET k == FirstIndex(s, ".")
    IN  IF k = 0 THEN <<s>> ELSE <<Take(s, k - 1)>> \o Split(Drop(s, k))

\* ".".join(chunks)
RECURSIVE Join(_)
Join(chunks) ==
    IF Len(chunks) = 0 THEN <<>>
    ELSE IF Len(chunks) = 1 THEN chunks[1]
    ELSE chunks[1] \o <<".">> \o Join(Tail(chunks))

\* str.rstrip(".")
RECURSIVE RStrip(_)
RStrip(s) ==
    IF Len(s) > 0 /\ s[Len(s)] = "." THEN RStrip(Take(s, Len(s) - 1)) ELSE s

\* str.partition("*"): the text before the first "*" and the text after it
Partition(s) ==
    LET k == FirstIndex(s, "*")
    IN  IF k = 0 THEN [head |-> s, tail |-> <<>>]
        ELSE [head |-> Take(s, k - 1), tail |-> Drop(s, k)]

\* sub in s
Contains(s, sub) ==
    \E k \in 0..(Len(s) - Len(sub)) : SubSeq(s, k + 1, k + Len(sub)) = sub

\* s < t on str: by code point, a proper prefix is smaller
RECURSIVE StrLess(_, _)
StrLess(s, t) ==
    IF Len(t) = 0 THEN FALSE
    ELSE IF Len(s) = 0 THEN TRUE
    ELSE IF s[1] # t[1] THEN Ord(s[1]) < Ord(t[1])
    ELSE StrLess(Tail(s), Tail(t))

\* An element of a sort key: a number, or a str
Num(n) == [num |-> n]
Str(s) == [str |-> s]

\* a < b on two elements of a sort key, both numbers or both strs
ElemLess(a, b) ==
    IF "num" \in DOMAIN a THEN a.num < b.num ELSE StrLess(a.str, b.str)

\* k1 < k2 on tuples: the first differing element decides
RECURSIVE TupleLess(_, _)
TupleLess(k1, k2) ==
    IF Len(k2) = 0 THEN FALSE
    ELSE IF Len(k1) = 0 THEN TRUE
    ELSE IF k1[1] # k2[1] THEN ElemLess(k1[1], k2[1])
    ELSE TupleLess(Tail(k1), Tail(k2))

\* sorted(keyed, key=..., reverse=True) on [key, name] records: descending by
\* key, records of equal key in their input order (the sort is stable)
RECURSIVE SortedReverse(_)
SortedReverse(keyed) ==
    IF Len(keyed) = 0 THEN <<>>
    ELSE LET init == SortedReverse(Take(keyed, Len(keyed) - 1))
             x    == keyed[Len(keyed)]
             ge   == SelectSeq(init, LAMBDA e : ~TupleLess(e.key, x.key))
             lt   == SelectSeq(init, LAMBDA e : TupleLess(e.key, x.key))
         IN  ge \o <<x>> \o lt

-----------------------------------------------------------------------------
(* fuzzy_search.get_score, the launcher's scorer                           *)

Scorers == {"similarity", "contrary"}

\* how many leading characters of p occur in t, in order
RECURSIVE MatchCount(_, _)
MatchCount(p, t) ==
    IF Len(p) = 0 \/ Len(t) = 0 THEN 0
    ELSE LET k == FirstIndex(t, p[1])
         IN  IF k = 0 THEN 0 ELSE 1 + MatchCount(Tail(p), Drop(t, k))

\* A deterministic, non-negative score of pattern p against text t; 0 for an
\* empty pattern or text.  "similarity" grows with the match, "contrary"
\* shrinks with it: the engines must rank correctly under either.
GetScore(sc, p, t) ==
    IF Len(p) = 0 \/ Len(t) = 0 THEN 0
    ELSE LET sim == MatchCount(p, t) + (IF Take(t, Len(p)) = p THEN 1 ELSE 0)
         IN  IF sc = "similarity" THEN sim ELSE Len(p) + 1 - sim

-----------------------------------------------------------------------------
(* search_nested                                                           *)

\* query_chunks = query.lower().split(".")
QueryChunks(q) == Split(Lower(q))

\* exact_match_query = query.lower().rstrip(".")
ExactMatchQuery(q) == RStrip(Lower(q))

\* basename_query = ".".join(query_chunks[:-1])
BasenameQuery(q) == Join(Take(QueryChunks(q), Len(QueryChunks(q)) - 1))

\* name_chunks = name.lower().split(".")
NameChunks(name) == Split(Lower(name))

\* basename = ".".join(name_chunks[:-1])
Basename(name) == Join(Take(NameChunks(name), Len(NameChunks(name)) - 1))

\* name == exact_match_query: the candidate as given, not lower-cased
NameExactMatch(name, q) == name = ExactMatchQuery(q)

\* score_name_query_match: the two scores, and the (pattern, text) pairs
\* get_score is invoked with on the way
score_name_query_match(sc, name_chunks, query_chunks, basename_query) ==
    LET n == Len(query_chunks)
        basename == Join(Take(name_chunks, n - 1))
        withBase == n > 1
        withLeaf == Len(name_chunks) >= n
    IN  [basename_match_score |->
             IF withBase THEN GetScore(sc, basename_query, basename) ELSE 0,
         leafname_match_score |->
             IF withLeaf THEN GetScore(sc, query_chunks[n], name_chunks[n]) ELSE 0,
         calls |->
             (IF withBase THEN {<<basename_query, basename>>} ELSE {})
             \cup (IF withLeaf THEN {<<query_chunks[n], name_chunks[n]>>} ELSE {})]

\* (a variant of the filter that lets one more level through)
DepthFilterLoose(name_chunks, query_chunks) == Len(name_chunks) <= Len(query_chunks) + 1

\* if len(name_chunks) <= len(query_chunks)
PassesDepthFilter(name_chunks, query_chunks) == Len(name_chunks) <= Len(query_chunks)

\* (a variant of the item that keeps the lower-cased name)
NestedItemLowered(sc, q, name) ==
    LET scores == score_name_query_match(sc, NameChunks(name), QueryChunks(q),
                                         BasenameQuery(q))
    IN  [module_name          |-> Lower(name),
         name_depth           |-> Len(NameChunks(name)),
         name_exact_match     |-> IF NameExactMatch(name, q) THEN 1 ELSE 0,
         basename_match_score |-> scores.basename_match_score,
         basename_exact_match |-> IF Basename(name) = BasenameQuery(q) THEN 1 ELSE 0,
         leafname_match_score |-> scores.leafname_match_score]

\* the NestedNameSearchResultItem built for a name that passes the filter
NestedItem(sc, q, name) ==
    LET scores == score_name_query_match(sc, NameChunks(name), QueryChunks(q),
                                         BasenameQuery(q))
    IN  [module_name          |-> name,
         name_depth           |-> Len(NameChunks(name)),
         name_exact_match     |-> IF NameExactMatch(name, q) THEN 1 ELSE 0,
         basename_match_score |-> scores.basename_match_score,
         basename_exact_match |-> IF Basename(name) = BasenameQuery(q) THEN 1 ELSE 0,
         leafname_match_score |-> scores.leafname_match_score]

\* (variants of the key: the basename score before the basename flag; the
\* depth ascending; no name at the end)
NestedKeyScoreFirst(item) ==
    <<Num(item.name_exact_match), Num(item.basename_match_score), Num(item.basename_exact_match),
      Num(item.leafname_match_score), Num(item.name_depth), Str(item.module_name)>>

NestedKeyShallowFirst(item) ==
    <<Num(item.name_exact_match), Num(item.basename_exact_match), Num(item.basename_match_score),
      Num(item.leafname_match_score), Num(0 - item.name_depth), Str(item.module_name)>>

NestedKeyNoName(item) ==
    <<Num(item.name_exact_match), Num(item.basename_exact_match), Num(item.basename_match_score),
      Num(item.leafname_match_score), Num(item.name_depth)>>

\* search_nested's sort_key
NestedSortKey(item) ==
    <<Num(item.name_exact_match), Num(item.basename_exact_match), Num(item.basename_match_score),
      Num(item.leafname_match_score), Num(item.name_depth), Str(item.module_name)>>

\* [res.module_name for res in sorted(result_items, key=sort_key, reverse=True)]
NestedRanked(items) ==
    LET keyed  == [k \in 1..Len(items) |->
                      [key |-> NestedSortKey(items[k]), name |-> items[k].module_name]]
        sorted == SortedReverse(keyed)
    IN  [k \in 1..Len(sorted) |-> sorted[k].name]

\* result_items after the loop has taken every name of ns
RECURSIVE NestedResultItems(_, _, _)
NestedResultItems(sc, q, ns) ==
    IF Len(ns) = 0 THEN <<>>
    ELSE LET before == NestedResultItems(sc, q, Take(ns, Len(ns) - 1))
             name   == ns[Len(ns)]
         IN  IF PassesDepthFilter(NameChunks(name), QueryChunks(q))
             THEN Append(before, NestedItem(sc, q, name))
             ELSE before

\* the list search_nested(q, ns) returns
SearchNestedNames(sc, q, ns) == NestedRanked(NestedResultItems(sc, q, ns))

-----------------------------------------------------------------------------
(* search_fullname                                                         *)

\* qhead, _, qtail = query.lower().partition("*")
QHead(q) == Partition(Lower(q)).head
QTail(q) == Partition(Lower(q)).tail

\* The positions at which a match of ordered_char_list_regex(chars), that is
\* chars[1] .*? chars[2] .*? ... chars[n], can end when it starts at position
\* s of text: chars[1] stands at s, any characters follow, and the rest of
\* the pattern matches from some later position.
RECURSIVE MatchEnds(_, _, _)
MatchEnds(chars, text, s) ==
    IF s > Len(text) \/ text[s] # chars[1] THEN {}
    ELSE IF Len(chars) = 1 THEN {s}
    ELSE UNION {MatchEnds(Tail(chars), text, t) : t \in (s + 1)..Len(text)}

\* (a variant of the search for "".join(re.escape(char) for char in chars):
\* no ".*?" between the characters, so they must stand side by side)
ContiguousSearch(chars, text) ==
    LET starts == {s \in 1..(Len(text) - Len(chars) + 1) :
                       SubSeq(text, s, s + Len(chars) - 1) = chars}
    IN  IF starts = {} THEN -1
        ELSE (CHOOSE s \in starts : \A r \in starts : s <= r) + Len(chars) - 1

\* re.search(head_regex, name_lower): span()[1] of the match, -1 for None.
\* The match starts at the leftmost position a match can start at; each lazy
\* ".*?" then takes as little as a match allows, which ends it at the earliest
\* end that start has.
RegexSearch(chars, text) ==
    LET starts == {s \in 1..Len(text) : MatchEnds(chars, text, s) # {}}
    IN  IF starts = {} THEN -1
        ELSE LET s0   == CHOOSE s \in starts : \A r \in starts : s <= r
                 ends == MatchEnds(chars, text, s0)
             IN  CHOOSE e \in ends : \A f \in ends : e <= f

\* head_match: whether the loop keeps the name
HeadMatch(q, name) ==
    IF Len(QHead(q)) > 0 THEN RegexSearch(QHead(q), Lower(name)) >= 0 ELSE TRUE

\* name_tail: the lower-cased name after the end of the head match
NameTail(q, name) ==
    IF Len(QHead(q)) > 0
    THEN LET e == RegexSearch(QHead(q), Lower(name))
         IN  Drop(Lower(name), IF e >= 0 THEN e ELSE 0)
    ELSE Lower(name)

\* the FullNameSearchResultItem built for a name whose head matches
FullnameItem(sc, q, name) ==
    [module_name         |-> name,
     head_match_score    |->
         IF Len(QHead(q)) > 0 THEN GetScore(sc, QHead(q), Lower(name)) ELSE 0,
     tail_match_score    |->
         IF Len(QTail(q)) > 0 THEN GetScore(sc, QTail(q), NameTail(q, name)) ELSE 0,
     tail_exact_contains |-> IF Contains(NameTail(q, name), QTail(q)) THEN 1 ELSE 0]

\* the (pattern, text) pairs get_score is invoked with for that name
FullnameCalls(q, name) ==
    (IF Len(QHead(q)) > 0 THEN {<<QHead(q), Lower(name)>>} ELSE {})
    \cup (IF Len(QTail(q)) > 0 THEN {<<QTail(q), NameTail(q, name)>>} ELSE {})

\* (a variant of the key: the tail score before the containment flag)
FullnameKeyScoreFirst(item) ==
    <<Num(item.tail_match_score), Num(item.tail_exact_contains), Num(item.head_match_score),
      Str(item.module_name)>>

\* search_fullname's sort_key
FullnameSortKey(item) ==
    <<Num(item.tail_exact_contains), Num(item.tail_match_score), Num(item.head_match_score),
      Str(item.module_name)>>

\* [res.module_name for res in sorted(result_items, key=sort_key, reverse=True)]
FullnameRanked(items) ==
    LET keyed  == [k \in 1..Len(items) |->
                      [key |-> FullnameSortKey(items[k]), name |-> items[k].module_name]]
        sorted == SortedReverse(keyed)
    IN  [k \in 1..Len(sorted) |-> sorted[k].name]

\* result_items after the loop has taken every name of ns
RECURSIVE FullnameResultItems(_, _, _)
FullnameResultItems(sc, q, ns) ==
    IF Len(ns) = 0 THEN <<>>
    ELSE LET before == FullnameResultItems(sc, q, Take(ns, Len(ns) - 1))
             name   == ns[Len(ns)]
         IN  IF HeadMatch(q, name)
             THEN Append(before, FullnameItem(sc, q, name))
             ELSE before

\* the list search_fullname(q, ns) returns
SearchFullnameNames(sc, q, ns) == FullnameRanked(FullnameResultItems(sc, q, ns))

-----------------------------------------------------------------------------
(* The inputs drawn, and the machine                                       *)

QueryPool ==
    { <<>>,
      <<"a">>, <<"A", ".">>, <<".", "a">>, <<"a", ".", "b">>, <<"a", "b">>,
      <<"*", "a">>, <<"a", "*", "b">>, <<"a", "b", "*">>, <<"a", ".", "*", "a">> }

NamePool ==
    { <<"a">>, <<"A">>, <<"b">>, <<"a", "b">>,
      <<"a", ".", "b">>, <<"a", ".", "a">>, <<"b", ".", "a">>, <<"A", ".", "B">>,
      <<"a", ".", "b", ".", "a">> }

NameLists == UNION {[1..n -> NamePool] : n \in 0..MaxNames}

Init ==
    /\ query \in QueryPool
    /\ module_names \in NameLists
    /\ scorer \in Scorers
    /\ engine = "none"
    /\ pc = "idle"
    /\ i = 0
    /\ result_items = <<>>
    /\ has_exact_match = FALSE
    /\ names = <<>>
    /\ calls = {}

\* search_nested is called: the statements before the loop
CallNested ==
    /\ pc = "idle"
    /\ engine' = "nested"
    /\ pc' = "loop"
    /\ i' = 1
    /\ UNCHANGED <<query, module_names, scorer, result_items, has_exact_match,
                   names, calls>>

\* one pass of search_nested's for loop
NestedIter ==
    /\ pc = "loop" /\ engine = "nested" /\ i <= Len(module_names)
    /\ LET name   == module_names[i]
           keep   == PassesDepthFilter(NameChunks(name), QueryChunks(query))
           scores == score_name_query_match(scorer, NameChunks(name),
                                            QueryChunks(query), BasenameQuery(query))
       IN  /\ has_exact_match' = (has_exact_match \/ NameExactMatch(name, query))
           /\ result_items' = IF keep
                              THEN Append(result_items, NestedItem(scorer, query, name))
                              ELSE result_items
           /\ calls' = IF keep THEN calls \cup scores.calls ELSE calls
    /\ i' = i + 1
    /\ UNCHANGED <<query, module_names, scorer, engine, pc, names>>

\* search_nested sorts and returns
NestedReturn ==
    /\ pc = "loop" /\ engine = "nested" /\ i > Len(module_names)
    /\ names' = NestedRanked(result_items)
    /\ pc' = "done"
    /\ UNCHANGED <<query, module_names, scorer, engine, i, result_items,
                   has_exact_match, calls>>

\* search_fullname is called: the statements before the loop
CallFullname ==
    /\ pc = "idle"
    /\ engine' = "fullname"
    /\ pc' = "loop"
    /\ i' = 1
    /\ UNCHANGED <<query, module_names, scorer, result_items, has_exact_match,
                   names, calls>>

\* one pass of search_fullname's for loop
FullnameIter ==
    /\ pc = "loop" /\ engine = "fullname" /\ i <= Len(module_names)
    /\ LET name == module_names[i]
           keep == HeadMatch(query, name)
       IN  /\ result_items' = IF keep
                              THEN Append(result_items, FullnameItem(scorer, query, name))
                              ELSE result_items
           /\ calls' = IF keep THEN calls \cup FullnameCalls(query, name) ELSE calls
    /\ i' = i + 1
    /\ UNCHANGED <<query, module_names, scorer, engine, pc, has_exact_match, names>>

\* search_fullname sorts and returns
FullnameReturn ==
    /\ pc = "loop" /\ engine = "fullname" /\ i > Len(module_names)
    /\ names' = FullnameRanked(result_items)
    /\ pc' = "done"
    /\ UNCHANGED <<query, module_names, scorer, engine, i, result_items,
                   has_exact_match, calls>>

Next ==
    \/ CallNested
    \/ NestedIter
    \/ NestedReturn
    \/ CallFullname
    \/ FullnameIter
    \/ FullnameReturn

Spec == Init /\ [][Next]_vars

NestedDone == pc = "done" /\ engine = "nested"
FullnameDone == pc = "done" /\ engine = "fullname"

\* the loops and the whole-call operators agree
LoopAgrees ==
    /\ NestedDone =>
           /\ result_items = NestedResultItems(scorer, query, module_names)
           /\ names = SearchNestedNames(scorer, query, module_names)
    /\ FullnameDone =>
           /\ result_items = FullnameResultItems(scorer, query, module_names)
           /\ names = SearchFullnameNames(scorer, query, module_names)

-----------------------------------------------------------------------------
(* Properties of the two engines                                           *)

\* the candidates given to the call, and how often x is in a list
Candidates == {module_names[k] : k \in 1..Len(module_names)}
Count(seq, x) == Cardinality({k \in 1..Len(seq) : seq[k] = x})
Depth(name) == Len(Split(name))

\* a candidate is an exact match when, lower-cased, it equals the lower-cased
\* query without its trailing delimiters
IsExactMatch(name) == Lower(name) = RStrip(Lower(query))

\* C1: search_nested returns exact_match_found = True if and only if some
\* candidate, case-folded, equals the case-folded query with its trailing
\* delimiters stripped, upper-case candidates included.
C1_ExactFlagCaseFolded ==
    NestedDone => (has_exact_match <=> \E x \in Candidates : IsExactMatch(x))

\* C2: during a call of either engine the scorer is never invoked with an
\* empty pattern.
C2_NoEmptyPattern == \A c \in calls : c[1] # <<>>

\* C3: no name search_nested returns has more segments than the query has.
C3_DepthFilter ==
    NestedDone => \A k \in 1..Len(names) : Depth(names[k]) <= Depth(query)

\* a deeper candidate was given and left out, another one was returned
C3_Witness ==
    /\ NestedDone
    /\ \E x \in Candidates : Depth(x) > Depth(query)
    /\ Len(names) > 0

\* C4: if some candidate is an exact match, an exact match is the first
\* element of the list search_nested returns.
C4_ExactMatchFirst ==
    (NestedDone /\ \E x \in Candidates : IsExactMatch(x))
        => (Len(names) > 0 /\ IsExactMatch(names[1]))

\* chars occur in text in order, not necessarily side by side
RECURSIVE IsSubsequence(_, _)
IsSubsequence(chars, text) ==
    IF Len(chars) = 0 THEN TRUE
    ELSE IF Len(text) = 0 THEN FALSE
    ELSE IF chars[1] = text[1] THEN IsSubsequence(Tail(chars), Tail(text))
    ELSE IsSubsequence(chars, Tail(text))

\* the lower-cased query text before the first wildcard
HeadOfQuery == LET q == Lower(query)
               IN  IF FirstIndex(q, "*") = 0 THEN q ELSE Take(q, FirstIndex(q, "*") - 1)

\* C5: search_fullname returns a candidate if and only if head is empty or the
\* lower-cased candidate holds the characters of head in order.
C5_HeadMatchExclusive ==
    FullnameDone =>
        \A x \in Candidates :
            (Count(names, x) > 0) <=>
                (HeadOfQuery = <<>> \/ IsSubsequence(HeadOfQuery, Lower(x)))

\* a head of two characters, a candidate that holds them apart and is
\* returned, and a candidate that is dropped
C5_Witness ==
    /\ FullnameDone
    /\ Len(HeadOfQuery) >= 2
    /\ \E x \in Candidates :
           /\ Count(names, x) > 0
           /\ ~Contains(Lower(x), HeadOfQuery)
    /\ \E x \in Candidates : Count(names, x) = 0

\* two returned names tie on name_exact_match, basename_exact_match, basename
\* score and leaf score
TieOnFour(x, y) ==
    LET a == NestedItem(scorer, query, x)
        b == NestedItem(scorer, query, y)
    IN  /\ a.name_exact_match = b.name_exact_match
        /\ a.basename_exact_match = b.basename_exact_match
        /\ a.basename_match_score = b.basename_match_score
        /\ a.leafname_match_score = b.leafname_match_score

\* C6 as stated: of two names search_nested returns that tie on the four
\* leading fields of the key, the shallower one stands before the deeper one.
C6_ShallowerFirst ==
    NestedDone =>
        \A j, k \in 1..Len(names) :
            (j < k /\ TieOnFour(names[j], names[k]))
                => Depth(names[j]) <= Depth(names[k])

\* C6 (amended): of two names search_nested returns that tie on the four
\* leading fields of the key, the deeper one stands before the shallower one,
\* and of two of equal depth the name that is greater by code points stands
\* first.
C6_DeeperFirst ==
    NestedDone =>
        \A j, k \in 1..Len(names) :
            (j < k /\ TieOnFour(names[j], names[k]))
                => /\ Depth(names[j]) >= Depth(names[k])
                   /\ Depth(names[j]) = Depth(names[k])
                          => ~StrLess(names[j], names[k])

\* two returned names of different depth tie on the four leading fields
C6_Witness ==
    /\ NestedDone
    /\ Len(names) = 2
    /\ TieOnFour(names[1], names[2])
    /\ Depth(names[1]) > Depth(names[2])

\* C7: of the names search_nested returns that are not exact full-name
\* matches, one whose lower-cased basename equals the query's basename stands
\* before every one whose basename does not.  (Stated for every name that
\* differs from the stripped query as given, which covers every name that
\* differs from it lower-cased.)
C7_BasenameExactFirst ==
    NestedDone =>
        \A j, k \in 1..Len(names) :
            ( /\ names[j] # RStrip(Lower(query))
              /\ names[k] # RStrip(Lower(query))
              /\ Basename(names[j]) = BasenameQuery(query)
              /\ Basename(names[k]) # BasenameQuery(query) )
                => j < k

\* a name with the query's basename stands before a name without it that has
\* the higher basename score
C7_Witness ==
    /\ NestedDone
    /\ Len(names) = 2
    /\ ~IsExactMatch(names[1]) /\ ~IsExactMatch(names[2])
    /\ Basename(names[1]) = BasenameQuery(query)
    /\ Basename(names[2]) # BasenameQuery(query)
    /\ NestedItem(scorer, query, names[2]).basename_match_score
           > NestedItem(scorer, query, names[1]).basename_match_score

\* the tail region of a returned name literally contains the query's tail
TailContained(x) == FullnameItem(scorer, query, x).tail_exact_contains = 1

\* C8: of the names search_fullname returns, one whose tail region contains
\* the tail string stands before every one whose tail region does not.
C8_TailContainedFirst ==
    FullnameDone =>
        \A j, k \in 1..Len(names) :
            (TailContained(names[j]) /\ ~TailContained(names[k])) => j < k

\* a name that contains the tail stands before a name that does not and has
\* the higher tail score
C8_Witness ==
    /\ FullnameDone
    /\ Len(names) = 2
    /\ TailContained(names[1]) /\ ~TailContained(names[2])
    /\ FullnameItem(scorer, query, names[2]).tail_match_score
           > FullnameItem(scorer, query, names[1]).tail_match_score

\* the candidate passes the filter of the engine that ran
PassesFilter(x) ==
    IF engine = "nested" THEN Depth(x) <= Depth(query)
    ELSE HeadOfQuery = <<>> \/ IsSubsequence(HeadOfQuery, Lower(x))

\* C9: the list either engine returns holds only candidates, as given, and
\* holds each candidate that passes the engine's filter as often as the input
\* does, and no other.
C9_ReorderingOfFiltered ==
    pc = "done" =>
        /\ \A k \in 1..Len(names) : names[k] \in Candidates
        /\ \A x \in Candidates :
               Count(names, x) = IF PassesFilter(x) THEN Count(module_names, x) ELSE 0

\* search_nested was given a candidate with an upper-case letter, which it
\* returned, and a candidate that fails the filter
C9_Witness ==
    /\ NestedDone
    /\ \E x \in Candidates : Lower(x) # x /\ Count(names, x) = 1
    /\ \E x \in Candidates : Count(names, x) = 0

\* either engine was given the same candidate twice and returned it twice
DuplicatesReturned ==
    /\ pc = "done"
    /\ \E x \in Candidates : Count(module_names, x) = 2 /\ Count(names, x) = 2

\* the candidates in another order
Orderings(n) == {f \in [1..n -> 1..n] : \A a, b \in 1..n : f[a] = f[b] => a = b}
Reordered(f) == [k \in 1..Len(module_names) |-> module_names[f[k]]]

\* C10: either engine returns the same list whatever the order the candidates
\* are given in.
C10_OrderIndependent ==
    /\ NestedDone =>
           \A f \in Orderings(Len(module_names)) :
               SearchNestedNames(scorer, query, Reordered(f)) = names
    /\ FullnameDone =>
           \A f \in Orderings(Len(module_names)) :
               SearchFullnameNames(scorer, query, Reordered(f)) = names

\* search_nested returned two different names that differ in no field of the
\* key but the name
C10_Witness ==
    /\ NestedDone
    /\ Len(names) = 2
    /\ names[1] # names[2]
    /\ TieOnFour(names[1], names[2])
    /\ Depth(names[1]) = Depth(names[2])

\* C11: when the query has more than one segment, the basename score of every
\* candidate that passes the depth filter is the score of the query's basename
\* against the candidate's own basename (all its segments but the last, empty
\* for a candidate of depth 1), candidates shallower than the query included.
C11_BasenameScoreOfOwnBasename ==
    (NestedDone /\ Len(QueryChunks(query)) > 1) =>
        \A k \in 1..Len(result_items) :
            result_items[k].basename_match_score
                = GetScore(scorer, BasenameQuery(query),
                           Basename(result_items[k].module_name))

\* the same for the candidates as deep as the query alone: for them the text
\* scored is the candidate's own basename
SameDepthScoresOwnBasename ==
    (NestedDone /\ Len(QueryChunks(query)) > 1) =>
        \A k \in 1..Len(result_items) :
            result_items[k].name_depth = Len(QueryChunks(query))
                => result_items[k].basename_match_score
                       = GetScore(scorer, BasenameQuery(query),
                                  Basename(result_items[k].module_name))

====
